---- MODULE Spec2Model ----
(***************************************************************************)
(* Model of the chunk-based similarity engine of veritas_utils.py:         *)
(* normalize_text, word_chunks, compute_matches.                           *)
(*                                                                         *)
(* Strings are sequences of one-character strings, lists are sequences,    *)
(* Python's 0-based indices are kept as integers and converted at the      *)
(* point of access.  Similarity scores are integers on the scale           *)
(* 0..ScoreMax (ScoreMax stands for the float 1.0).                        *)
(***************************************************************************)
EXTENDS Integers, Sequences, FiniteSets, TLC

\* ------------------------------------------------------------------------
\* Bounds of the model
\* ------------------------------------------------------------------------
MaxWords == 24
MaxChunks == 26
DocWords == 12
ScoreMax == 2
MaxTopK == 2

\* ------------------------------------------------------------------------
\* Python primitives used by the source
\* ------------------------------------------------------------------------
Min2(a, b) == IF a <= b THEN a ELSE b
Max2(a, b) == IF a >= b THEN a ELSE b

\* s[a:b] of a Python list or str, a and b integers (negative ones count
\* from the end, both are clamped to the length).
PySlice(s, a, b) ==
  LET n  == Len(s)
      lo == IF a < 0 THEN Max2(a + n, 0) ELSE Min2(a, n)
      hi == IF b < 0 THEN Max2(b + n, 0) ELSE Min2(b, n)
  IN  IF lo >= hi THEN << >> ELSE SubSeq(s, lo + 1, hi)

\* Character classes of the regular expressions \w and \s.  A character is
\* a string; "e_acute" and "E_acute" stand for the accented letter in its
\* two cases.
UpperChars == {"A", "B", "C", "D", "E_acute"}
LowerChars == {"a", "b", "c", "d", "e", "f", "g", "h", "i", "j", "k", "l",
               "m", "n", "o", "p", "q", "r", "s", "t", "u", "v", "w", "x",
               "y", "z"}
AccentChars == {"e_acute"}
DigitChars == {"1", "2"}
SpaceChars == {" ", "\n", "\t"}
PunctChars == {",", ".", "-", "!"}

IsSpace(c) == c \in SpaceChars
IsWordChar(c) == c \in UpperChars \cup LowerChars \cup AccentChars \cup DigitChars \cup {"_"}

\* str.lower() on one character.
LowerChar(c) ==
  CASE c = "A" -> "a"
    [] c = "B" -> "b"
    [] c = "C" -> "c"
    [] c = "D" -> "d"
    [] c = "E_acute" -> "e_acute"
    [] OTHER -> c

Indices(s) == [p \in 1..Len(s) |-> p]

\* str.strip(): drop leading and trailing whitespace.
Strip(s) ==
  LET solid == SelectSeq(Indices(s), LAMBDA p : ~IsSpace(s[p]))
  IN  IF solid = << >> THEN << >> ELSE SubSeq(s, solid[1], solid[Len(solid)])

\* re.sub(r"\s+", " ", s): every maximal run of whitespace becomes one space.
CollapseSpaces(s) ==
  LET kept == SelectSeq(Indices(s),
                        LAMBDA p : ~(IsSpace(s[p]) /\ p > 1 /\ IsSpace(s[p - 1])))
  IN  [k \in 1..Len(kept) |-> IF IsSpace(s[kept[k]]) THEN " " ELSE s[kept[k]]]

\* str.split() without arguments: the maximal runs of non-whitespace.
Split(s) ==
  LET starts == SelectSeq(Indices(s),
                          LAMBDA p : ~IsSpace(s[p]) /\ (p = 1 \/ IsSpace(s[p - 1])))
      ends   == SelectSeq(Indices(s),
                          LAMBDA p : ~IsSpace(s[p]) /\ (p = Len(s) \/ IsSpace(s[p + 1])))
  IN  [k \in 1..Len(starts) |-> SubSeq(s, starts[k], ends[k])]

\* " ".join(ws)
RECURSIVE Join(_)
Join(ws) ==
  IF ws = << >> THEN << >>
  ELSE IF Len(ws) = 1 THEN ws[1]
  ELSE ws[1] \o <<" ">> \o Join(Tail(ws))

\* ------------------------------------------------------------------------
\* normalize_text
\* ------------------------------------------------------------------------
normalize_text(s) ==
  LET lowered == [p \in 1..Len(s) |-> LowerChar(s[p])]
      cleaned == [p \in 1..Len(s) |->
                    IF IsWordChar(lowered[p]) \/ IsSpace(lowered[p])
                    THEN lowered[p] ELSE " "]
  IN  Strip(CollapseSpaces(cleaned))

\* ------------------------------------------------------------------------
\* word_chunks
\* ------------------------------------------------------------------------
\* max(10, chunk_words // 3): the least length of an emitted window.
MinChunkLen(cw) == Max2(10, cw \div 3)

\* Mutant of WhileStep: the tail test written with <= instead of <.
WhileStep_TailLeq(ws, cw, sw, st) ==
  IF ~(st.i < Len(ws)) THEN [st EXCEPT !.looping = FALSE]
  ELSE LET chunk == PySlice(ws, st.i, st.i + cw)
       IN  IF Len(chunk) <= MinChunkLen(cw)
           THEN [st EXCEPT !.looping = FALSE]
           ELSE [i |-> st.i + sw, chunks |-> Append(st.chunks, Join(chunk)),
                 looping |-> TRUE]

\* Mutant of WhileStep: the window taken one word too long.
WhileStep_LongSlice(ws, cw, sw, st) ==
  IF ~(st.i < Len(ws)) THEN [st EXCEPT !.looping = FALSE]
  ELSE LET chunk == PySlice(ws, st.i, st.i + cw + 1)
       IN  IF Len(chunk) < MinChunkLen(cw)
           THEN [st EXCEPT !.looping = FALSE]
           ELSE [i |-> st.i + sw, chunks |-> Append(st.chunks, Join(chunk)),
                 looping |-> TRUE]

\* One evaluation of the while loop of word_chunks, on the loop state
\* st = [i, chunks, looping]: the loop test, the slice, the break, the
\* append and the increment.
WhileStep(ws, cw, sw, st) ==
  IF ~(st.i < Len(ws)) THEN [st EXCEPT !.looping = FALSE]
  ELSE LET chunk == PySlice(ws, st.i, st.i + cw)
       IN  IF Len(chunk) < MinChunkLen(cw)
           THEN [st EXCEPT !.looping = FALSE]
           ELSE [i |-> st.i + sw, chunks |-> Append(st.chunks, Join(chunk)),
                 looping |-> TRUE]

\* Mutant of Fallback: the length test written with > instead of >=.
Fallback_Gt(ws, cs) ==
  IF cs = << >> /\ Len(ws) > 10 THEN Append(cs, Join(ws)) ELSE cs

\* The statement after the loop: the whole-document fallback chunk.
Fallback(ws, cs) ==
  IF cs = << >> /\ Len(ws) >= 10 THEN Append(cs, Join(ws)) ELSE cs

RECURSIVE RunLoop(_, _, _, _)
RunLoop(ws, cw, sw, st) ==
  IF st.looping THEN RunLoop(ws, cw, sw, WhileStep(ws, cw, sw, st)) ELSE st

\* word_chunks(text, chunk_words, stride_words), for arguments on which
\* the loop terminates.
word_chunks(t, cw, sw) ==
  LET ws == Split(t)
  IN  IF ws = << >> THEN << >>
      ELSE Fallback(ws, RunLoop(ws, cw, sw,
                                [i |-> 0, chunks |-> << >>, looping |-> TRUE]).chunks)

\* ------------------------------------------------------------------------
\* compute_matches
\* ------------------------------------------------------------------------
\* The frame of a finished call: the returned pair (global_sim, matches),
\* how the call ended (raised, fitted: whether fit_transform was called)
\* and the locals q_chunks and doc_chunk_map.  A float is kept as the
\* fraction num / den.
\* The two early returns: (0.0, []) with the vectorizer untouched.
ZeroResult(qc, dcm) ==
  [raised |-> FALSE, fitted |-> FALSE,
   global_sim |-> [num |-> 0, den |-> 1], matches |-> << >>,
   q_chunks |-> qc, doc_chunk_map |-> dcm]

\* The outcome of a call in which TfidfVectorizer.fit_transform raises.
RaisedResult(qc, dcm) ==
  [raised |-> TRUE, fitted |-> TRUE,
   global_sim |-> [num |-> 0, den |-> 1], matches |-> << >>,
   q_chunks |-> qc, doc_chunk_map |-> dcm]

\* The loop over corpus_docs.items(): the (docname, chunk) pairs of every
\* document, in the order of the mapping.
RECURSIVE DocChunkMap(_, _, _)
DocChunkMap(docs, cw, sw) ==
  IF docs = << >> THEN << >>
  ELSE LET dn == normalize_text(docs[1].doctext)
           cs == word_chunks(dn, cw, sw)
       IN  [c \in 1..Len(cs) |-> <<docs[1].docname, cs[c]>>]
             \o DocChunkMap(Tail(docs), cw, sw)

\* The tokens TfidfVectorizer takes from a text: its default token pattern
\* keeps the words of two or more word characters.
Tokens(t) == SelectSeq(Split(t), LAMBDA w : Len(w) >= 2)

TokenSet(t) == {Tokens(t)[p] : p \in 1..Len(Tokens(t))}

\* fit_transform raises ValueError when no text has a token.
EmptyVocabulary(all_texts) ==
  \A p \in 1..Len(all_texts) : Tokens(all_texts[p]) = << >>

\* The similarity matrix: sim[i][j] of query chunk i and corpus chunk j.
SimMatrix(simf, q_chunks, doc_chunk_map) ==
  [r \in 1..Len(q_chunks) |->
     [c \in 1..Len(doc_chunk_map) |-> simf[<<q_chunks[r], doc_chunk_map[c][2]>>]]]

RECURSIVE SeqMax(_)
SeqMax(row) ==
  IF Len(row) = 1 THEN row[1] ELSE Max2(row[1], SeqMax(Tail(row)))

RECURSIVE SeqSum(_)
SeqSum(row) == IF row = << >> THEN 0 ELSE row[1] + SeqSum(Tail(row))

\* Mutant of GlobalSim: the first column taken for the row maximum.
GlobalSim_FirstColumn(m) ==
  [num |-> SeqSum([r \in 1..Len(m) |-> m[r][1]]), den |-> Len(m)]

\* best_scores = sim.max(axis=1); global_sim = float(best_scores.mean())
GlobalSim(m) ==
  [num |-> SeqSum([r \in 1..Len(m) |-> SeqMax(m[r])]), den |-> Len(m)]

Reverse(s) == [p \in 1..Len(s) |-> s[Len(s) + 1 - p]]

\* top_idx = row.argsort()[::-1][:top_k_per_chunk], as 1-based columns;
\* asc is the outcome of row.argsort().
TopIdx(asc, top_k) == PySlice(Reverse(asc), 0, top_k)

\* Mutant of RowMatches: the threshold test left out.
RECURSIVE RowMatches_NoThreshold(_, _, _, _, _, _)
RowMatches_NoThreshold(m, q_chunks, doc_chunk_map, r, top_idx, threshold) ==
  IF top_idx = << >> THEN << >>
  ELSE LET c == top_idx[1]
       IN  <<[query_chunk |-> q_chunks[r],
              source_doc |-> doc_chunk_map[c][1],
              source_chunk |-> doc_chunk_map[c][2],
              score |-> m[r][c]]>>
             \o RowMatches_NoThreshold(m, q_chunks, doc_chunk_map, r,
                                       Tail(top_idx), threshold)

\* The inner loop over top_idx for query chunk r: the matches appended.
RECURSIVE RowMatches(_, _, _, _, _, _)
RowMatches(m, q_chunks, doc_chunk_map, r, top_idx, threshold) ==
  IF top_idx = << >> THEN << >>
  ELSE LET c == top_idx[1]
           score == m[r][c]
           found == IF score >= threshold
                    THEN <<[query_chunk |-> q_chunks[r],
                            source_doc |-> doc_chunk_map[c][1],
                            source_chunk |-> doc_chunk_map[c][2],
                            score |-> score]>>
                    ELSE << >>
       IN  found \o RowMatches(m, q_chunks, doc_chunk_map, r, Tail(top_idx), threshold)

\* The outer loop over the rows of sim, from row r on.
RECURSIVE AllMatches(_, _, _, _, _, _, _)
AllMatches(m, q_chunks, doc_chunk_map, ord, r, top_k, threshold) ==
  IF r > Len(m) THEN << >>
  ELSE RowMatches(m, q_chunks, doc_chunk_map, r,
                  TopIdx(ord[q_chunks[r]], top_k), threshold)
         \o AllMatches(m, q_chunks, doc_chunk_map, ord, r + 1, top_k, threshold)

MatchKey(mt) == <<mt.source_doc, mt.source_chunk>>

\* Mutant of UniqPut: the score comparison written with < instead of >.
UniqPut_KeepLower(uniq, mt) ==
  IF \E p \in 1..Len(uniq) : MatchKey(uniq[p]) = MatchKey(mt)
  THEN [p \in 1..Len(uniq) |->
          IF MatchKey(uniq[p]) = MatchKey(mt) /\ mt.score < uniq[p].score
          THEN mt ELSE uniq[p]]
  ELSE Append(uniq, mt)

\* Mutant of UniqPut: the first match of a key kept whatever its score.
UniqPut_KeepFirst(uniq, mt) ==
  IF \E p \in 1..Len(uniq) : MatchKey(uniq[p]) = MatchKey(mt)
  THEN uniq
  ELSE Append(uniq, mt)

\* Mutant of UniqPut: the match of a key overwritten whatever its score.
UniqPut_KeepLast(uniq, mt) ==
  IF \E p \in 1..Len(uniq) : MatchKey(uniq[p]) = MatchKey(mt)
  THEN [p \in 1..Len(uniq) |->
          IF MatchKey(uniq[p]) = MatchKey(mt) THEN mt ELSE uniq[p]]
  ELSE Append(uniq, mt)

\* One pass of the loop that fills the dict uniq (kept in insertion order):
\* a new key is appended, a key already there keeps its place and takes
\* the new match only if its score is strictly higher.
UniqPut(uniq, mt) ==
  IF \E p \in 1..Len(uniq) : MatchKey(uniq[p]) = MatchKey(mt)
  THEN [p \in 1..Len(uniq) |->
          IF MatchKey(uniq[p]) = MatchKey(mt) /\ mt.score > uniq[p].score
          THEN mt ELSE uniq[p]]
  ELSE Append(uniq, mt)

RECURSIVE Uniq(_, _)
Uniq(uniq, ms) ==
  IF ms = << >> THEN uniq ELSE Uniq(UniqPut(uniq, ms[1]), Tail(ms))

\* Mutant of InsertSorted: ascending order (reverse=True left out).
InsertSorted_Ascending(sorted, mt) ==
  LET before == SelectSeq(sorted, LAMBDA x : x.score <= mt.score)
      after  == SelectSeq(sorted, LAMBDA x : x.score > mt.score)
  IN  before \o <<mt>> \o after

\* Insertion of one match into a list sorted by descending score, after the
\* matches of equal score (sorted() is stable, also with reverse=True).
InsertSorted(sorted, mt) ==
  LET before == SelectSeq(sorted, LAMBDA x : x.score >= mt.score)
      after  == SelectSeq(sorted, LAMBDA x : x.score < mt.score)
  IN  before \o <<mt>> \o after

\* sorted(uniq.values(), key=lambda x: x.score, reverse=True)
RECURSIVE SortedByScore(_, _)
SortedByScore(sorted, ms) ==
  IF ms = << >> THEN sorted
  ELSE SortedByScore(InsertSorted(sorted, ms[1]), Tail(ms))

\* Mean of the scores of a list of matches, 0.0 for the empty list.
MeanScore(ms) ==
  IF ms = << >> THEN [num |-> 0, den |-> 1]
  ELSE [num |-> SeqSum([p \in 1..Len(ms) |-> ms[p].score]), den |-> Len(ms)]

\* Mutant of compute_matches: the global score taken from the returned
\* matches.
compute_matches_GlobalOfMatches(q_text, docs, cw, sw, top_k, threshold, simf, ord) ==
  LET qn == normalize_text(q_text)
      q_chunks == word_chunks(qn, cw, sw)
      doc_chunk_map == DocChunkMap(docs, cw, sw)
      all_texts == q_chunks \o [c \in 1..Len(doc_chunk_map) |-> doc_chunk_map[c][2]]
      m == SimMatrix(simf, q_chunks, doc_chunk_map)
      matches == AllMatches(m, q_chunks, doc_chunk_map, ord, 1, top_k, threshold)
      kept == SortedByScore(<< >>, Uniq(<< >>, matches))
  IN  IF q_chunks = << >> THEN ZeroResult(<< >>, << >>)
      ELSE IF doc_chunk_map = << >> THEN ZeroResult(q_chunks, << >>)
      ELSE IF EmptyVocabulary(all_texts) THEN RaisedResult(q_chunks, doc_chunk_map)
      ELSE [raised |-> FALSE, fitted |-> TRUE,
            global_sim |-> MeanScore(kept),
            matches |-> kept,
            q_chunks |-> q_chunks, doc_chunk_map |-> doc_chunk_map]

\* Mutant of compute_matches: the early return on an empty doc_chunk_map
\* left out, so that the vectorizer is fitted on the query chunks alone and
\* the maximum over an empty row raises.
compute_matches_NoCorpusGuard(q_text, docs, cw, sw, top_k, threshold, simf, ord) ==
  LET qn == normalize_text(q_text)
      q_chunks == word_chunks(qn, cw, sw)
      doc_chunk_map == DocChunkMap(docs, cw, sw)
      all_texts == q_chunks \o [c \in 1..Len(doc_chunk_map) |-> doc_chunk_map[c][2]]
      m == SimMatrix(simf, q_chunks, doc_chunk_map)
      matches == AllMatches(m, q_chunks, doc_chunk_map, ord, 1, top_k, threshold)
  IN  IF q_chunks = << >> THEN ZeroResult(<< >>, << >>)
      ELSE IF EmptyVocabulary(all_texts) \/ doc_chunk_map = << >>
           THEN RaisedResult(q_chunks, doc_chunk_map)
      ELSE [raised |-> FALSE, fitted |-> TRUE,
            global_sim |-> GlobalSim(m),
            matches |-> SortedByScore(<< >>, Uniq(<< >>, matches)),
            q_chunks |-> q_chunks, doc_chunk_map |-> doc_chunk_map]

\* compute_matches.  simf is what cosine_similarity gives for each pair of
\* chunk texts of this corpus and ord what argsort gives for the row of each
\* query chunk text.
compute_matches(q_text, docs, cw, sw, top_k, threshold, simf, ord) ==
  LET qn == normalize_text(q_text)
      q_chunks == word_chunks(qn, cw, sw)
      doc_chunk_map == DocChunkMap(docs, cw, sw)
      all_texts == q_chunks \o [c \in 1..Len(doc_chunk_map) |-> doc_chunk_map[c][2]]
      m == SimMatrix(simf, q_chunks, doc_chunk_map)
      matches == AllMatches(m, q_chunks, doc_chunk_map, ord, 1, top_k, threshold)
  IN  IF q_chunks = << >> THEN ZeroResult(<< >>, << >>)
      ELSE IF doc_chunk_map = << >> THEN ZeroResult(q_chunks, << >>)
      ELSE IF EmptyVocabulary(all_texts) THEN RaisedResult(q_chunks, doc_chunk_map)
      ELSE [raised |-> FALSE, fitted |-> TRUE,
            global_sim |-> GlobalSim(m),
            matches |-> SortedByScore(<< >>, Uniq(<< >>, matches)),
            q_chunks |-> q_chunks, doc_chunk_map |-> doc_chunk_map]

\* ------------------------------------------------------------------------
\* State
\* ------------------------------------------------------------------------
VARIABLES
  text,          \* word_chunks: the argument text
  chunk_words,   \* the argument chunk_words
  stride_words,  \* the argument stride_words
  words,         \* word_chunks: words = text.split()
  i,             \* word_chunks: the loop index
  chunks,        \* word_chunks: the list chunks
  pc,            \* word_chunks: position in the function body
  query_text,    \* compute_matches: the argument query_text
  corpus_docs,   \* compute_matches: the argument corpus_docs, in dict order
  sim,           \* cosine_similarity of each (query chunk, corpus chunk) text pair
  order,         \* row.argsort() for the row of each query chunk text
  last,          \* the latest finished call of compute_matches
  prev,          \* the call before it
  nt_arg,        \* normalize_text: the argument s
  nt_ret,        \* normalize_text: how the call ended and what it returned
  hl_text,       \* highlight_text: the argument query_text
  matches,       \* highlight_text: the argument matches
  out,           \* highlight_text: the local out
  hl_k,          \* highlight_text: how many matches the for loop has taken
  hl_pc,         \* highlight_text: "idle", "start", "loop" or "done"
  web_text,      \* web_similarity_scan: the argument text
  num_chunks,    \* web_similarity_scan: the argument num_chunks
  web_chunks,    \* web_similarity_scan: the local chunks
  queries,       \* the search queries sent so far, with how each request ended
  web_pc,        \* web_similarity_scan: "idle", "build", "loop" or "done"
  library,       \* st.session_state["library"]: the names, in dict order
  library_meta,  \* st.session_state["library_meta"]: per name absent, include or exclude
  last_result,   \* st.session_state["last_result"]
  serp_key,      \* _get_serpapi_key() gives a key
  internet_consent,  \* browser: the checkbox internet_consent
  internet_text, \* browser: the text of the Internet tab
  lib_text,      \* browser: the text of the analysis tab
  upl_lib,       \* browser: the files held by the uploader upl_lib
  exc,           \* browser: the checkboxes exc_<name>
  clicked,       \* browser: the button clicked since the last script run
  rerun,         \* the widget messages and st.rerun() requests not yet served
  shown,         \* browser: the buttons and checkboxes of the page on display
  last_scan,     \* the latest call of web_similarity_scan
  cm_called,     \* the latest script run called compute_matches
  removed        \* the names removed with Remover and not uploaded since

chunkVars == <<text, words, i, chunks, pc>>
matchVars == <<query_text, corpus_docs, sim, order, last, prev>>
normVars == <<nt_arg, nt_ret>>
vars == <<text, chunk_words, stride_words, words, i, chunks, pc,
          query_text, corpus_docs, sim, order, last, prev,
          nt_arg, nt_ret, hl_text, matches, out, hl_k, hl_pc,
          web_text, num_chunks, web_chunks, queries, web_pc,
          library, library_meta, last_result, serp_key, internet_consent,
          internet_text, lib_text, upl_lib, exc, clicked, rerun, shown,
          last_scan, cm_called, removed>>
appVars == <<library, library_meta, last_result, serp_key, internet_consent,
             internet_text, lib_text, upl_lib, exc, clicked, rerun, shown,
             last_scan, cm_called, removed>>
webVars == <<web_text, num_chunks, web_chunks, queries, web_pc>>
hlVars == <<hl_text, matches, out, hl_k, hl_pc>>

\* The value None of Python, apart from every string.
NoneValue == <<"None">>

\* normalize_text is not being called.
NormIdle == nt_arg = << >> /\ nt_ret = [status |-> "idle", value |-> << >>]

\* The application is not running.
AppIdle ==
  /\ library = << >>
  /\ library_meta = << >>
  /\ last_result = << >>
  /\ serp_key = FALSE
  /\ internet_consent = FALSE
  /\ internet_text = << >>
  /\ lib_text = << >>
  /\ upl_lib = {}
  /\ exc = << >>
  /\ clicked = << >>
  /\ rerun = 0
  /\ shown = << >>
  /\ last_scan = << >>
  /\ cm_called = FALSE
  /\ removed = {}

\* web_similarity_scan is not being called.
WebIdle ==
  /\ web_text = << >>
  /\ num_chunks = 0
  /\ web_chunks = << >>
  /\ queries = << >>
  /\ web_pc = "idle"

\* highlight_text is not being called.
HlIdle ==
  /\ hl_text = << >>
  /\ matches = << >>
  /\ out = << >>
  /\ hl_k = 0
  /\ hl_pc = "idle"

NoCall ==
  [called |-> FALSE, threshold |-> 0, top_k_per_chunk |-> 0,
   res |-> ZeroResult(<< >>, << >>)]

\* ------------------------------------------------------------------------
\* Inputs of the word_chunks specification
\* ------------------------------------------------------------------------
Letters == <<"a", "b", "c", "d", "e", "f", "g", "h", "i", "j", "k", "l", "m",
             "n", "o", "p", "q", "r", "s", "t", "u", "v", "w", "x", "y", "z">>

\* A text of n distinct one-letter words, each followed by the separator
\* sep (one or more whitespace characters).
LetterText(n, sep) ==
  LET step == 1 + Len(sep)
  IN  [p \in 1..(n * step) |->
         IF (p - 1) % step = 0 THEN Letters[((p - 1) \div step) + 1]
         ELSE sep[(p - 1) % step]]

Separators == {<<" ">>, <<"\n", " ">>}
ChunkTexts == {LetterText(n, sep) : n \in 0..MaxWords, sep \in Separators}
ChunkWordsSet == {5, 10, 12, 33}
StrideSet == {-1, 0, 1, 3, 12}

\* ------------------------------------------------------------------------
\* word_chunks as a state machine: one action per statement group
\* ------------------------------------------------------------------------
InitChunks ==
  /\ text \in ChunkTexts
  /\ chunk_words \in ChunkWordsSet
  /\ stride_words \in StrideSet
  /\ words = << >>
  /\ i = 0
  /\ chunks = << >>
  /\ pc = "split"
  /\ query_text = << >>
  /\ corpus_docs = << >>
  /\ sim = << >>
  /\ order = << >>
  /\ last = NoCall
  /\ prev = NoCall
  /\ NormIdle
  /\ HlIdle
  /\ WebIdle
  /\ AppIdle

\* words = text.split(); if not words: return []; chunks = []; i = 0
WcSplit ==
  /\ pc = "split"
  /\ words' = Split(text)
  /\ pc' = IF words' = << >> THEN "done" ELSE "loop"
  /\ i' = 0
  /\ chunks' = << >>
  /\ UNCHANGED <<text, chunk_words, stride_words>>
  /\ UNCHANGED matchVars
  /\ UNCHANGED normVars
  /\ UNCHANGED hlVars
  /\ UNCHANGED webVars
  /\ UNCHANGED appVars

\* one evaluation of the while loop
WcLoop ==
  /\ pc = "loop"
  /\ Len(chunks) < MaxChunks
  /\ LET st == WhileStep(words, chunk_words, stride_words,
                         [i |-> i, chunks |-> chunks, looping |-> TRUE])
     IN  /\ i' = st.i
         /\ chunks' = st.chunks
         /\ pc' = IF st.looping THEN "loop" ELSE "after"
  /\ UNCHANGED <<text, chunk_words, stride_words, words>>
  /\ UNCHANGED matchVars
  /\ UNCHANGED normVars
  /\ UNCHANGED hlVars
  /\ UNCHANGED webVars
  /\ UNCHANGED appVars

\* if not chunks and len(words) >= 10: ...; return chunks
WcAfter ==
  /\ pc = "after"
  /\ chunks' = Fallback(words, chunks)
  /\ pc' = "done"
  /\ UNCHANGED <<text, chunk_words, stride_words, words, i>>
  /\ UNCHANGED matchVars
  /\ UNCHANGED normVars
  /\ UNCHANGED hlVars
  /\ UNCHANGED webVars
  /\ UNCHANGED appVars

NextChunks == WcSplit \/ WcLoop \/ WcAfter

SpecChunks == InitChunks /\ [][NextChunks]_vars

\* ------------------------------------------------------------------------
\* Inputs of the compute_matches specification
\* ------------------------------------------------------------------------
WordAB == <<"a", "b">>
WordCD == <<"c", "d">>
WordEF == <<"e", "f">>
WordGH == <<"g", "h">>

\* n words that repeat the vocabulary voc.
PatternWords(n, voc) == [p \in 1..n |-> voc[((p - 1) % Len(voc)) + 1]]

UpperChar(c) ==
  CASE c = "a" -> "A"
    [] c = "b" -> "B"
    [] c = "c" -> "C"
    [] c = "d" -> "D"
    [] OTHER -> c

\* A raw text of the words ws: capital initials, a comma and a line break
\* after every word.
RECURSIVE Decorated(_)
Decorated(ws) ==
  IF ws = << >> THEN << >>
  ELSE <<UpperChar(Head(ws[1]))>> \o Tail(ws[1]) \o <<",", "\n">> \o Decorated(Tail(ws))

TextEmpty == << >>
TextPunct == <<"!", "-", " ", ".", "\n">>
TextShort == Join(PatternWords(9, <<WordAB, WordCD>>))
TextLetters == LetterText(DocWords, <<" ">>)
TextTwo == Decorated(PatternWords(DocWords, <<WordAB, WordCD>>))
TextThree == Join(PatternWords(DocWords, <<WordAB, WordCD, WordEF>>))
TextOther == Join(PatternWords(DocWords, <<WordGH, WordEF>>))

Doc(name, t) == [docname |-> name, doctext |-> t]

\* The calls followed: a query, a corpus and the two window parameters.
Scenario(q, docs, cw, sw) ==
  [query_text |-> q, corpus_docs |-> docs, chunk_words |-> cw, stride_words |-> sw]

Scenarios ==
  { Scenario(TextEmpty, <<Doc("a", TextTwo)>>, 10, 2),
    Scenario(TextShort, <<Doc("a", TextTwo)>>, 10, 1),
    Scenario(TextPunct, <<Doc("a", TextTwo)>>, 12, 2),
    Scenario(TextThree, << >>, 10, 2),
    Scenario(TextThree, <<Doc("a", TextShort), Doc("b", TextPunct)>>, 12, 1),
    Scenario(TextLetters, <<Doc("a", TextLetters)>>, 10, 2),
    Scenario(TextThree, <<Doc("a", TextTwo)>>, 10, 2),
    Scenario(TextThree, <<Doc("a", TextTwo)>>, 12, 2),
    Scenario(TextThree, <<Doc("a", TextOther)>>, 10, 2),
    Scenario(TextTwo, <<Doc("a", TextThree), Doc("b", TextTwo)>>, 10, 2) }
Thresholds == 0..ScoreMax
TopKs == 0..MaxTopK

\* ------------------------------------------------------------------------
\* What the library calls can give on the chunks of one corpus
\* ------------------------------------------------------------------------
SeqToSet(s) == {s[p] : p \in 1..Len(s)}

\* The cosine of the TF-IDF vectors of two texts: 0 when they share no
\* token, the top of the scale when their token sequences are the same,
\* positive otherwise.
SimValues(q, c) ==
  IF TokenSet(q) \cap TokenSet(c) = {} THEN {0}
  ELSE IF Tokens(q) = Tokens(c) THEN {ScoreMax}
  ELSE 1..ScoreMax

SimOutcomes(q_chunks, doc_chunk_map) ==
  LET pairs == {<<q, d[2]>> : q \in SeqToSet(q_chunks), d \in SeqToSet(doc_chunk_map)}
      values == [pr \in pairs |-> SimValues(pr[1], pr[2])]
  IN  {f \in [pairs -> 0..ScoreMax] : \A pr \in pairs : f[pr] \in values[pr]}

ColumnOrders(n) ==
  {f \in [1..n -> 1..n] : \A a, b \in 1..n : a # b => f[a] # f[b]}

\* row.argsort(): a permutation of the columns that puts the row in
\* ascending order; the default sort is not stable, so equal scores come
\* in an order the build decides.
ArgsortOutcomes(simf, q_chunks, doc_chunk_map) ==
  LET n == Len(doc_chunk_map)
      qs == SeqToSet(q_chunks)
      row == [q \in qs |-> [c \in 1..n |-> simf[<<q, doc_chunk_map[c][2]>>]]]
      sorted == [q \in qs |->
                   {o \in ColumnOrders(n) :
                      \A a \in 1..(n - 1) : row[q][o[a]] <= row[q][o[a + 1]]}]
  IN  {o \in [qs -> ColumnOrders(n)] : \A q \in qs : o[q] \in sorted[q]}

\* ------------------------------------------------------------------------
\* Calls of compute_matches on one query and corpus
\* ------------------------------------------------------------------------
Init ==
  /\ \E sc \in Scenarios :
        /\ query_text = sc.query_text
        /\ corpus_docs = sc.corpus_docs
        /\ chunk_words = sc.chunk_words
        /\ stride_words = sc.stride_words
  /\ LET q_chunks == word_chunks(normalize_text(query_text), chunk_words, stride_words)
         doc_chunk_map == DocChunkMap(corpus_docs, chunk_words, stride_words)
     IN  /\ sim \in SimOutcomes(q_chunks, doc_chunk_map)
         /\ order \in ArgsortOutcomes(sim, q_chunks, doc_chunk_map)
  /\ last = NoCall
  /\ prev = NoCall
  /\ NormIdle
  /\ HlIdle
  /\ WebIdle
  /\ text = << >>
  /\ words = << >>
  /\ i = 0
  /\ chunks = << >>
  /\ pc = "idle"
  /\ AppIdle

\* One call compute_matches(query_text, corpus_docs, chunk_words,
\* stride_words, top_k_per_chunk, threshold).  Two calls are followed on
\* each input: last and prev hold every pair of calls.
Call(top_k, threshold) ==
  /\ ~prev.called
  /\ last' = [called |-> TRUE, threshold |-> threshold, top_k_per_chunk |-> top_k,
              res |-> compute_matches(query_text, corpus_docs, chunk_words,
                                      stride_words, top_k, threshold, sim, order)]
  /\ prev' = last
  /\ UNCHANGED <<query_text, corpus_docs, chunk_words, stride_words, sim, order>>
  /\ UNCHANGED chunkVars
  /\ UNCHANGED normVars
  /\ UNCHANGED hlVars
  /\ UNCHANGED webVars
  /\ UNCHANGED appVars

Next == \E top_k \in TopKs, threshold \in Thresholds : Call(top_k, threshold)

Spec == Init /\ [][Next]_vars

\* ------------------------------------------------------------------------
\* Calls of normalize_text
\* ------------------------------------------------------------------------
MaxTextLen == 3
NormChars == {"a", "B", "E_acute", " ", "\n", ","}

RECURSIVE StringsUpTo(_)
StringsUpTo(n) ==
  IF n = 0 THEN {<< >>}
  ELSE LET shorter == StringsUpTo(n - 1)
       IN  shorter \cup {Append(s, c) : s \in shorter, c \in NormChars}

NormInputs == StringsUpTo(MaxTextLen) \cup {NoneValue}

\* A call normalize_text(s): s.lower() raises AttributeError on None, on a
\* string the three statements run and the result is returned.
NormalizeCall(s) ==
  IF s = NoneValue THEN [status |-> "raised", value |-> << >>]
  ELSE [status |-> "returned", value |-> normalize_text(s)]

InitNormalize ==
  /\ nt_arg \in NormInputs
  /\ nt_ret = [status |-> "called", value |-> << >>]
  /\ text = << >>
  /\ chunk_words = 0
  /\ stride_words = 0
  /\ words = << >>
  /\ i = 0
  /\ chunks = << >>
  /\ pc = "idle"
  /\ query_text = << >>
  /\ corpus_docs = << >>
  /\ sim = << >>
  /\ order = << >>
  /\ last = NoCall
  /\ prev = NoCall
  /\ HlIdle
  /\ WebIdle
  /\ AppIdle

NtCall ==
  /\ nt_ret.status = "called"
  /\ nt_ret' = NormalizeCall(nt_arg)
  /\ UNCHANGED nt_arg
  /\ UNCHANGED <<chunk_words, stride_words>>
  /\ UNCHANGED chunkVars
  /\ UNCHANGED matchVars
  /\ UNCHANGED hlVars
  /\ UNCHANGED webVars
  /\ UNCHANGED appVars

NextNormalize == NtCall

SpecNormalize == InitNormalize /\ [][NextNormalize]_vars

\* ------------------------------------------------------------------------
\* highlight_text
\* ------------------------------------------------------------------------
\* The markers U+27E6 and U+27E7, each one character.
MarkOpen == "[["
MarkClose == "]]"

\* matches[:20], the leading words[:12] and the least length of a snippet.
MaxMatches == 20
SnippetWords == 12
MinSnippetLen == 20

\* The characters re.escape puts a backslash before.
SpecialChars == {".", "-", "+", "\\", " ", "\n", "\t"}

\* re.escape(s)
RECURSIVE re_escape(_)
re_escape(s) ==
  IF s = << >> THEN << >>
  ELSE (IF Head(s) \in SpecialChars THEN <<"\\", Head(s)>> ELSE <<Head(s)>>)
         \o re_escape(Tail(s))

\* re.sub(r"\s+", r"\\s+", p) from position k on: every maximal run of
\* whitespace becomes the three characters backslash, s, plus.
RECURSIVE SpacesToPattern(_, _)
SpacesToPattern(p, k) ==
  IF k > Len(p) THEN << >>
  ELSE (IF ~IsSpace(p[k]) THEN <<p[k]>>
        ELSE IF k > 1 /\ IsSpace(p[k - 1]) THEN << >>
        ELSE <<"\\", "s", "+">>)
         \o SpacesToPattern(p, k + 1)

\* The regular expressions that arise: a sequence of atoms, each a
\* character or a backslash and a character, each optionally followed by +.
IsEscape(pat, j) == pat[j] = "\\" /\ j < Len(pat)
AtomWidth(pat, j) == IF IsEscape(pat, j) THEN 2 ELSE 1

\* The atom at j matches the character c, under re.IGNORECASE.
AtomMatches(pat, j, c) ==
  IF IsEscape(pat, j)
  THEN IF pat[j + 1] = "s" THEN IsSpace(c)
       ELSE LowerChar(c) = LowerChar(pat[j + 1])
  ELSE LowerChar(c) = LowerChar(pat[j])

\* re.compile succeeds on the pattern from j on: no + without an atom
\* before it and no backslash at the very end.
RECURSIVE Compiles(_, _)
Compiles(pat, j) ==
  IF j > Len(pat) THEN TRUE
  ELSE IF pat[j] = "+" THEN FALSE
  ELSE IF pat[j] = "\\" /\ j = Len(pat) THEN FALSE
  ELSE LET after == j + AtomWidth(pat, j)
       IN  Compiles(pat, IF after <= Len(pat) /\ pat[after] = "+"
                         THEN after + 1 ELSE after)

\* The backtracking matcher: the pattern from atom j on is matched against
\* txt from position p on; the result is the position after the match, 0
\* when there is none.  A + takes as many characters as still let the rest
\* of the pattern match.
RECURSIVE MatchEnd(_, _, _, _)
MatchEnd(pat, j, txt, p) ==
  IF j > Len(pat) THEN p
  ELSE LET w == AtomWidth(pat, j)
           plus == j + w <= Len(pat) /\ pat[j + w] = "+"
           bad == {q \in p..Len(txt) : ~AtomMatches(pat, j, txt[q])}
           run == IF bad = {} THEN Len(txt) - p + 1
                  ELSE (CHOOSE q \in bad : \A o \in bad : q <= o) - p
       IN  IF plus
           THEN LET ok == {n \in 1..run : MatchEnd(pat, j + w + 1, txt, p + n) # 0}
                IN  IF ok = {} THEN 0
                    ELSE MatchEnd(pat, j + w + 1, txt,
                                  p + (CHOOSE n \in ok : \A o \in ok : n >= o))
           ELSE IF run >= 1 THEN MatchEnd(pat, j + w, txt, p + 1) ELSE 0

\* Mutant of re_sub: the matched text is put back in lower case.
RECURSIVE re_sub_Lowered(_, _, _)
re_sub_Lowered(pat, txt, pos) ==
  LET found == {q \in pos..Len(txt) : MatchEnd(pat, 1, txt, q) # 0}
  IN  IF found = {} THEN SubSeq(txt, pos, Len(txt))
      ELSE LET q == CHOOSE a \in found : \A b \in found : a <= b
               e == MatchEnd(pat, 1, txt, q)
           IN  SubSeq(txt, pos, q - 1) \o <<MarkOpen>>
                 \o [p \in 1..(e - q) |-> LowerChar(txt[q + p - 1])]
                 \o <<MarkClose>> \o re_sub_Lowered(pat, txt, e)

\* re.sub(pattern, lambda mo: "[[" + mo.group(0) + "]]", txt) from position
\* pos on: the non-overlapping matches from left to right are wrapped.
RECURSIVE re_sub(_, _, _)
re_sub(pat, txt, pos) ==
  LET found == {q \in pos..Len(txt) : MatchEnd(pat, 1, txt, q) # 0}
  IN  IF found = {} THEN SubSeq(txt, pos, Len(txt))
      ELSE LET q == CHOOSE a \in found : \A b \in found : a <= b
               e == MatchEnd(pat, 1, txt, q)
           IN  SubSeq(txt, pos, q - 1) \o <<MarkOpen>> \o SubSeq(txt, q, e - 1)
                 \o <<MarkClose>> \o re_sub(pat, txt, e)

\* Mutant of Snippet: one word more is kept.
Snippet_OneMore(query_chunk) ==
  LET ws == Split(query_chunk)
  IN  Join(PySlice(ws, 0, Min2(SnippetWords + 1, Len(ws))))

\* " ".join(words[: min(12, len(words))]) of m.query_chunk.split()
Snippet(query_chunk) ==
  LET ws == Split(query_chunk)
  IN  Join(PySlice(ws, 0, Min2(SnippetWords, Len(ws))))

\* The pattern built from a snippet.
Pattern(snippet) == SpacesToPattern(re_escape(snippet), 1)

\* Mutant of LoopMatches: the loop runs over all the matches.
LoopMatches_All(ms) == ms

\* matches[:20]
LoopMatches(ms) == PySlice(ms, 0, MaxMatches)

\* Mutant of InitialOut: the text is normalized first.
InitialOut_Normalized(q_text) == normalize_text(q_text)

\* out = query_text
InitialOut(q_text) == q_text

\* Mutant of ForStep: a snippet that is too short ends the loop.
ForStep_BreakOnShort(ms, st) ==
  IF st.k >= Len(ms) THEN [st EXCEPT !.looping = FALSE]
  ELSE LET snippet == Snippet(ms[st.k + 1].query_chunk)
           pattern == Pattern(snippet)
       IN  IF Len(snippet) < MinSnippetLen
           THEN [st EXCEPT !.looping = FALSE]
           ELSE IF ~Compiles(pattern, 1)
           THEN [st EXCEPT !.k = st.k + 1]
           ELSE [st EXCEPT !.k = st.k + 1, !.out = re_sub(pattern, st.out, 1)]

\* One evaluation of the for loop over ms: the loop ends when ms is used
\* up; a snippet under 20 characters and a pattern that raises re.error
\* continue with the next match; otherwise out is rewritten.
ForStep(ms, st) ==
  IF st.k >= Len(ms) THEN [st EXCEPT !.looping = FALSE]
  ELSE LET snippet == Snippet(ms[st.k + 1].query_chunk)
           pattern == Pattern(snippet)
       IN  IF Len(snippet) < MinSnippetLen
           THEN [st EXCEPT !.k = st.k + 1]
           ELSE IF ~Compiles(pattern, 1)
           THEN [st EXCEPT !.k = st.k + 1]
           ELSE [st EXCEPT !.k = st.k + 1, !.out = re_sub(pattern, st.out, 1)]

RECURSIVE ForLoop(_, _)
ForLoop(ms, st) ==
  IF st.looping THEN ForLoop(ms, ForStep(ms, st)) ELSE st.out

\* highlight_text(query_text, matches)
highlight_text(q_text, ms) ==
  ForLoop(LoopMatches(ms), [k |-> 0, out |-> InitialOut(q_text), looping |-> TRUE])

\* ------------------------------------------------------------------------
\* Calls of highlight_text
\* ------------------------------------------------------------------------
\* A Match with the query chunk qc.
MatchOf(qc) ==
  [query_chunk |-> qc, source_doc |-> "d", source_chunk |-> qc, score |-> ScoreMax]

Repeat(x, n) == [k \in 1..n |-> x]

\* Words of 20 letters: a..t, f..y, and one that no text contains.
WordAT == SubSeq(Letters, 1, 20)
WordFY == SubSeq(Letters, 6, 25)
WordZZ == Repeat("z", 20)

ChunkShort == <<"a", "b", "c", " ", "d", "e", "f">>
Chunk12 == Strip(LetterText(12, <<" ">>))
Chunk13 == LetterText(13, <<" ", "\n">>)
ChunkDotted == SubSeq(Letters, 1, 10) \o <<".", "+", "-">> \o SubSeq(Letters, 11, 20)

HlTexts ==
  { << >>,
    SubSeq(Letters, 1, 25),
    <<"A">> \o Tail(WordAT) \o <<",", " ">> \o WordFY \o <<"."  >>,
    <<"x">> \o WordAT \o WordAT \o <<"\n">> \o ChunkDotted,
    LetterText(12, <<" ">>),
    LetterText(13, <<"\\", "s">>),
    LetterText(12, <<"\\", "s", "s">>) }

HlChunkLists ==
  { << >>,
    <<WordAT>>,
    <<WordAT, WordFY>>,
    <<WordFY, WordAT>>,
    <<WordAT, WordAT>>,
    <<ChunkShort, WordAT>>,
    <<WordZZ, WordFY, ChunkDotted>>,
    <<Chunk12>>,
    <<Chunk13>>,
    <<Chunk12, ChunkShort, Chunk13>>,
    Repeat(ChunkShort, MaxMatches) \o <<WordAT>>,
    Repeat(WordZZ, MaxMatches - 1) \o <<WordAT, WordFY>>,
    Repeat(ChunkShort, MaxMatches - 1) \o <<Chunk12, Chunk13>> }

InitHighlight ==
  /\ hl_text \in HlTexts
  /\ \E cs \in HlChunkLists : matches = [k \in 1..Len(cs) |-> MatchOf(cs[k])]
  /\ out = << >>
  /\ hl_k = 0
  /\ hl_pc = "start"
  /\ text = << >>
  /\ chunk_words = 0
  /\ stride_words = 0
  /\ words = << >>
  /\ i = 0
  /\ chunks = << >>
  /\ pc = "idle"
  /\ query_text = << >>
  /\ corpus_docs = << >>
  /\ sim = << >>
  /\ order = << >>
  /\ last = NoCall
  /\ prev = NoCall
  /\ NormIdle
  /\ WebIdle
  /\ AppIdle

\* out = query_text
HlStart ==
  /\ hl_pc = "start"
  /\ out' = InitialOut(hl_text)
  /\ hl_k' = 0
  /\ hl_pc' = "loop"
  /\ UNCHANGED <<hl_text, matches>>
  /\ UNCHANGED <<chunk_words, stride_words>>
  /\ UNCHANGED chunkVars
  /\ UNCHANGED matchVars
  /\ UNCHANGED normVars
  /\ UNCHANGED webVars
  /\ UNCHANGED appVars

\* one evaluation of for m in matches[:20], or the return after the last
HlLoop ==
  /\ hl_pc = "loop"
  /\ LET st == ForStep(LoopMatches(matches), [k |-> hl_k, out |-> out, looping |-> TRUE])
     IN  /\ out' = st.out
         /\ hl_k' = st.k
         /\ hl_pc' = IF st.looping THEN "loop" ELSE "done"
  /\ UNCHANGED <<hl_text, matches>>
  /\ UNCHANGED <<chunk_words, stride_words>>
  /\ UNCHANGED chunkVars
  /\ UNCHANGED matchVars
  /\ UNCHANGED normVars
  /\ UNCHANGED webVars
  /\ UNCHANGED appVars

NextHighlight == HlStart \/ HlLoop

SpecHighlight == InitHighlight /\ [][NextHighlight]_vars

\* ------------------------------------------------------------------------
\* build_chunks and web_similarity_scan (src/app.py)
\* ------------------------------------------------------------------------
\* The character class [A-Za-zÀ-ÿ0-9] of _split_words.
IsAlnum(c) == c \in UpperChars \cup LowerChars \cup AccentChars \cup DigitChars

\* _split_words(text): the maximal runs of letters and digits of the
\* lowered text.
_split_words(t) ==
  LET s == [p \in 1..Len(t) |-> LowerChar(t[p])]
      starts == SelectSeq(Indices(s),
                          LAMBDA p : IsAlnum(s[p]) /\ (p = 1 \/ ~IsAlnum(s[p - 1])))
      ends   == SelectSeq(Indices(s),
                          LAMBDA p : IsAlnum(s[p]) /\ (p = Len(s) \/ ~IsAlnum(s[p + 1])))
  IN  [k \in 1..Len(starts) |-> SubSeq(s, starts[k], ends[k])]

\* The while loop of build_chunks from index idx on: a window shorter than
\* max(12, chunk_words // 2) is passed over, the loop goes on.
RECURSIVE BuildLoop(_, _, _, _, _, _)
BuildLoop(ws, cw, sw, max_chunks, idx, acc) ==
  IF idx < Len(ws) /\ Len(acc) < max_chunks
  THEN LET chunk == PySlice(ws, idx, idx + cw)
       IN  BuildLoop(ws, cw, sw, max_chunks, idx + sw,
                     IF Len(chunk) >= Max2(12, cw \div 2)
                     THEN Append(acc, Join(chunk)) ELSE acc)
  ELSE acc

\* The second loop of build_chunks: of the chunks with the same first 120
\* characters the first one is kept.
UniqChunks(cs) ==
  LET kept == SelectSeq(Indices(cs),
                        LAMBDA k : \A e \in 1..(k - 1) :
                                      PySlice(cs[e], 0, 120) # PySlice(cs[k], 0, 120))
  IN  [k \in 1..Len(kept) |-> cs[kept[k]]]

\* build_chunks(text, chunk_words, stride_words, max_chunks)
build_chunks(t, cw, sw, max_chunks) ==
  LET ws == _split_words(t)
  IN  IF ws = << >> THEN << >>
      ELSE UniqChunks(BuildLoop(ws, cw, sw, max_chunks, 0, << >>))

\* The parameter q of the request of serpapi_search_chunk: the chunk, in
\* double quotes when it has 80 characters or more.
SearchQuery(chunk) ==
  IF Len(chunk) >= 80 THEN <<"\"">> \o chunk \o <<"\"">> ELSE chunk

\* ------------------------------------------------------------------------
\* Scans of web_similarity_scan
\* ------------------------------------------------------------------------
WebWords == 30
WebTexts ==
  {LetterText(n, <<",", " ">>) : n \in 0..26}
    \cup {Decorated(PatternWords(n, <<WordAB, WordCD, WordEF>>)) : n \in {24, WebWords}}
    \cup {Join(PatternWords(WebWords, <<WordAB, WordCD, WordEF, WordGH, WordAB, WordCD, WordGH>>))}
WebChunkWords == {12, 16, 28}
WebStrides == {3, 5, 12}
WebNumChunks == 1..3

InitWeb ==
  /\ web_text \in WebTexts
  /\ num_chunks \in WebNumChunks
  /\ chunk_words \in WebChunkWords
  /\ stride_words \in WebStrides
  /\ web_chunks = << >>
  /\ queries = << >>
  /\ web_pc = "build"
  /\ text = << >>
  /\ words = << >>
  /\ i = 0
  /\ chunks = << >>
  /\ pc = "idle"
  /\ query_text = << >>
  /\ corpus_docs = << >>
  /\ sim = << >>
  /\ order = << >>
  /\ last = NoCall
  /\ prev = NoCall
  /\ NormIdle
  /\ HlIdle
  /\ AppIdle

\* chunks = build_chunks(text, chunk_words, stride_words, max_chunks=num_chunks)
WsBuild ==
  /\ web_pc = "build"
  /\ web_chunks' = build_chunks(web_text, chunk_words, stride_words, num_chunks)
  /\ web_pc' = "loop"
  /\ UNCHANGED <<web_text, num_chunks, queries>>
  /\ UNCHANGED <<chunk_words, stride_words>>
  /\ UNCHANGED chunkVars
  /\ UNCHANGED matchVars
  /\ UNCHANGED normVars
  /\ UNCHANGED hlVars
  /\ UNCHANGED appVars

\* one evaluation of for c in chunks: the request for c is sent; it comes
\* back with results or raises, and the loop goes on either way
WsQuery ==
  /\ web_pc = "loop"
  /\ Len(queries) < Len(web_chunks)
  /\ \E ok \in BOOLEAN :
        queries' = Append(queries, [q |-> SearchQuery(web_chunks[Len(queries) + 1]),
                                    ok |-> ok])
  /\ UNCHANGED <<web_text, num_chunks, web_chunks, web_pc>>
  /\ UNCHANGED <<chunk_words, stride_words>>
  /\ UNCHANGED chunkVars
  /\ UNCHANGED matchVars
  /\ UNCHANGED normVars
  /\ UNCHANGED hlVars
  /\ UNCHANGED appVars

\* the loop over chunks is over
WsDone ==
  /\ web_pc = "loop"
  /\ Len(queries) = Len(web_chunks)
  /\ web_pc' = "done"
  /\ UNCHANGED <<web_text, num_chunks, web_chunks, queries>>
  /\ UNCHANGED <<chunk_words, stride_words>>
  /\ UNCHANGED chunkVars
  /\ UNCHANGED matchVars
  /\ UNCHANGED normVars
  /\ UNCHANGED hlVars
  /\ UNCHANGED appVars

NextWeb == WsBuild \/ WsQuery \/ WsDone

SpecWeb == InitWeb /\ [][NextWeb]_vars

\* ------------------------------------------------------------------------
\* The Streamlit script (src/app.py): session state, widgets, script runs
\* ------------------------------------------------------------------------
\* The file names and the texts the user has at hand; "" is the empty text,
\* the other text has words enough for a chunk.
DocNames == {"d1", "d2"}
AppTexts == {"", "t1"}
MaxQueued == 2

NoScan == [called |-> FALSE, consent |-> FALSE, text |-> ""]
NoResult == [corpus |-> {}, query_text |-> "None"]
NoClick == [btn |-> "none", name |-> ""]

\* Mutant of Corpus: the exclude flag is not looked at.
Corpus_All(lib, meta) == SeqToSet(lib)

\* corpus = {n: t for n, t in library.items()
\*           if not library_meta.get(n, {}).get("exclude", False)}
Corpus(lib, meta) == {n \in SeqToSet(lib) : meta[n] # "exclude"}

\* Mutant of RunsAnalysis: the test of an empty corpus is left out.
RunsAnalysis_NoCorpusTest(run, corpus) == run

\* if run: ... if not corpus: st.error(...) else: compute_matches(...)
RunsAnalysis(run, corpus) == run /\ corpus # {}

\* else-branch of if not serp_key, then if run_web: web_similarity_scan(...)
RunsWebScan(key, run_web, consent, q_text) == key /\ run_web

\* if up_lib: for f in up_lib: library[f.name] = ...: a name already in
\* the dict keeps its place, the new names come after it in the order
\* new_names of the uploader.
AfterUpload(lib, new_names) ==
  lib \o SelectSeq(new_names, LAMBDA n : n \notin SeqToSet(lib))

\* library_meta.setdefault(name, {..., "exclude": False})
SetDefault(meta, names) ==
  [n \in DOMAIN meta |-> IF n \in names /\ meta[n] = "absent" THEN "include" ELSE meta[n]]

\* The value st.checkbox("Excluir", value=meta["exclude"], key="exc_<name>")
\* returns: what the browser holds for the checkbox, its value argument
\* when the browser holds nothing.
CheckboxValue(box, meta_n) ==
  IF box = "unset" THEN meta_n ELSE IF box = "on" THEN "exclude" ELSE "include"

\* for name in list(library.keys()): the checkbox sets meta["exclude"]; a
\* click on Remover deletes the name from library and library_meta and
\* st.rerun() ends the script run there.
RECURSIVE RowsLoop(_, _, _, _)
RowsLoop(names, boxes, click, st) ==
  IF names = << >> \/ st.stopped THEN st
  ELSE LET n == Head(names)
           meta1 == [st.meta EXCEPT ![n] = CheckboxValue(boxes[n], SetDefault(st.meta, {n})[n])]
       IN  IF click = [btn |-> "rm", name |-> n]
           THEN [st EXCEPT !.library = SelectSeq(st.library, LAMBDA x : x # n),
                           !.meta = [meta1 EXCEPT ![n] = "absent"],
                           !.stopped = TRUE,
                           !.gone = {n}]
           ELSE RowsLoop(Tail(names), boxes, click,
                         [st EXCEPT !.meta = meta1, !.rows = st.rows \cup {n}])

\* The orders in which the uploader can hand over its files.
UploaderOrders(files) ==
  {o \in UNION {[1..k -> files] : k \in {Cardinality(files)}} :
     \A a, b \in DOMAIN o : a # b => o[a] # o[b]}

InitApp ==
  /\ library = << >>
  /\ library_meta = [n \in DocNames |-> "absent"]
  /\ last_result = NoResult
  /\ serp_key \in BOOLEAN
  /\ internet_consent = FALSE
  /\ internet_text = ""
  /\ lib_text = ""
  /\ upl_lib = {}
  /\ exc = [n \in DocNames |-> "unset"]
  /\ clicked = NoClick
  /\ rerun = 1
  /\ shown = [btn_analisar_bib |-> FALSE, btn_web |-> FALSE,
              internet_consent |-> FALSE, rows |-> {}]
  /\ last_scan = NoScan
  /\ cm_called = FALSE
  /\ removed = {}
  /\ text = << >>
  /\ chunk_words = 0
  /\ stride_words = 0
  /\ words = << >>
  /\ i = 0
  /\ chunks = << >>
  /\ pc = "idle"
  /\ query_text = << >>
  /\ corpus_docs = << >>
  /\ sim = << >>
  /\ order = << >>
  /\ last = NoCall
  /\ prev = NoCall
  /\ NormIdle
  /\ HlIdle
  /\ WebIdle

otherVars == <<text, chunk_words, stride_words, words, i, chunks, pc,
               query_text, corpus_docs, sim, order, last, prev,
               nt_arg, nt_ret, hl_text, matches, out, hl_k, hl_pc,
               web_text, num_chunks, web_chunks, queries, web_pc>>

\* One run of the script from top to bottom, with the widget values the
\* browser holds at that time (the browser sends every change at once and
\* goes on showing the page of the last run until the next one has drawn
\* it again; the requests that came in are served by one run): the analysis tab, the Internet tab, then the
\* library tab.  A button gives True in the run that its click started,
\* whatever its disabled argument is in that run.
ScriptRun ==
  /\ rerun > 0
  /\ \E up_lib \in UploaderOrders(upl_lib) :
       LET run == clicked.btn = "btn_analisar_bib"
           corpus == Corpus(library, library_meta)
           run_web == clicked.btn = "btn_web"
           consent == internet_consent
           lib1 == IF upl_lib # {} THEN AfterUpload(library, up_lib) ELSE library
           meta1 == SetDefault(library_meta, upl_lib)
           st == RowsLoop(lib1, exc, clicked,
                          [library |-> lib1, meta |-> meta1,
                           stopped |-> FALSE, rows |-> {}, gone |-> {}])
       IN  /\ last_result' = IF RunsAnalysis(run, corpus)
                             THEN [corpus |-> corpus, query_text |-> lib_text]
                             ELSE last_result
           /\ cm_called' = RunsAnalysis(run, corpus)
           /\ last_scan' = IF RunsWebScan(serp_key, run_web, consent, internet_text)
                           THEN [called |-> TRUE, consent |-> consent,
                                 text |-> internet_text]
                           ELSE last_scan
           /\ library' = st.library
           /\ library_meta' = st.meta
           /\ removed' = removed \cup st.gone
           /\ rerun' = IF st.stopped THEN 1 ELSE 0
           /\ exc' = [n \in DocNames |->
                        IF n \in st.rows
                        THEN (IF st.meta[n] = "exclude" THEN "on" ELSE "off")
                        ELSE IF st.stopped THEN exc[n] ELSE "unset"]
           /\ shown' = [btn_analisar_bib |-> lib_text # "" /\ library # << >>,
                        btn_web |-> serp_key /\ consent /\ internet_text # "",
                        internet_consent |-> serp_key,
                        rows |-> st.rows]
  /\ clicked' = NoClick
  /\ UNCHANGED <<serp_key, internet_consent, internet_text, lib_text, upl_lib>>
  /\ UNCHANGED otherVars

\* The user puts the file n into the uploader of the library tab.
Upload(n) ==
  /\ n \notin upl_lib
  /\ upl_lib' = upl_lib \cup {n}
  /\ removed' = removed \ {n}
  /\ rerun = 0
  /\ rerun' = rerun + 1
  /\ UNCHANGED <<library, library_meta, last_result, serp_key, internet_consent,
                 internet_text, lib_text, exc, clicked, shown, last_scan, cm_called>>
  /\ UNCHANGED otherVars

\* The user takes the file n out of the uploader.
ClearUpload(n) ==
  /\ n \in upl_lib
  /\ upl_lib' = upl_lib \ {n}
  /\ rerun = 0
  /\ rerun' = rerun + 1
  /\ UNCHANGED <<library, library_meta, last_result, serp_key, internet_consent,
                 internet_text, lib_text, exc, clicked, shown, last_scan, cm_called, removed>>
  /\ UNCHANGED otherVars

\* The user ticks or unticks the checkbox Excluir of a row on display.
ToggleExclude(n) ==
  /\ n \in shown.rows
  /\ exc' = [exc EXCEPT ![n] = IF exc[n] = "on" THEN "off" ELSE "on"]
  /\ rerun = 0
  /\ rerun' = rerun + 1
  /\ UNCHANGED <<library, library_meta, last_result, serp_key, internet_consent,
                 internet_text, lib_text, upl_lib, clicked, shown, last_scan, cm_called,
                 removed>>
  /\ UNCHANGED otherVars

\* The user ticks or unticks the consent checkbox on display.
ToggleConsent ==
  /\ shown.internet_consent
  /\ internet_consent' = ~internet_consent
  /\ rerun = 0
  /\ rerun' = rerun + 1
  /\ UNCHANGED <<library, library_meta, last_result, serp_key,
                 internet_text, lib_text, upl_lib, exc, clicked, shown, last_scan,
                 cm_called, removed>>
  /\ UNCHANGED otherVars

\* The user changes the text of the analysis tab.
EditLibText(t) ==
  /\ t # lib_text
  /\ lib_text' = t
  /\ rerun = 0
  /\ rerun' = rerun + 1
  /\ UNCHANGED <<library, library_meta, last_result, serp_key, internet_consent,
                 internet_text, upl_lib, exc, clicked, shown, last_scan, cm_called,
                 removed>>
  /\ UNCHANGED otherVars

\* The user changes the text of the Internet tab.
EditInternetText(t) ==
  /\ shown.internet_consent
  /\ t # internet_text
  /\ internet_text' = t
  /\ rerun = 0
  /\ rerun' = rerun + 1
  /\ UNCHANGED <<library, library_meta, last_result, serp_key, internet_consent,
                 lib_text, upl_lib, exc, clicked, shown, last_scan, cm_called, removed>>
  /\ UNCHANGED otherVars

\* The user clicks a button that the page on display shows enabled; the
\* click can come while the run for the last change is still to be served.
Click(b) ==
  /\ clicked = NoClick
  /\ \/ b.btn = "btn_analisar_bib" /\ shown.btn_analisar_bib
     \/ b.btn = "btn_web" /\ shown.btn_web
     \/ b.btn = "rm" /\ b.name \in shown.rows
  /\ clicked' = b
  /\ rerun < MaxQueued
  /\ rerun' = rerun + 1
  /\ UNCHANGED <<library, library_meta, last_result, serp_key, internet_consent,
                 internet_text, lib_text, upl_lib, exc, shown, last_scan, cm_called,
                 removed>>
  /\ UNCHANGED otherVars

Buttons ==
  {[btn |-> "btn_analisar_bib", name |-> ""], [btn |-> "btn_web", name |-> ""]}
    \cup {[btn |-> "rm", name |-> n] : n \in DocNames}

NextApp ==
  \/ ScriptRun
  \/ \E n \in DocNames : Upload(n)
  \/ \E n \in DocNames : ClearUpload(n)
  \/ \E n \in DocNames : ToggleExclude(n)
  \/ ToggleConsent
  \/ \E t \in AppTexts : EditLibText(t)
  \/ \E t \in AppTexts : EditInternetText(t)
  \/ \E b \in Buttons : Click(b)

SpecApp == InitApp /\ [][NextApp]_vars

\* ------------------------------------------------------------------------
\* Claims about word_chunks (checked under SpecChunks)
\* ------------------------------------------------------------------------
\* The number of words of a chunk string.
WordCount(ch) == Len(Split(ch))

\* The window words[k*s : k*s + c] written out for a start k*s >= 0.
WindowAt(k) ==
  LET n  == Len(words)
      a  == k * stride_words
      b  == a + chunk_words
      hi == IF b < 0 THEN (IF b + n < 0 THEN 0 ELSE b + n)
            ELSE (IF b > n THEN n ELSE b)
  IN  SubSeq(words, a + 1, hi)

LeastLen == IF chunk_words \div 3 > 10 THEN chunk_words \div 3 ELSE 10

StopsAt(k) == k * stride_words >= Len(words) \/ Len(WindowAt(k)) < LeastLen

\* m of the claim: the first window index that is short or past the end.
FirstStop ==
  CHOOSE m \in 0..Len(words) : StopsAt(m) /\ \A k \in 0..(m - 1) : ~StopsAt(k)

\* C6: with stride_words >= 1 the sliding window emits, in order, exactly
\* the windows words[k*s : k*s + c] for k = 0..m-1, m being the first k
\* whose window has fewer than max(10, c // 3) words or starts at or past
\* the end; no emitted window is shorter than that least length; only the
\* fallback chunk can stand in their place when m = 0.
Thm_C6 ==
  (pc \in {"after", "done"} /\ stride_words >= 1) =>
     LET m == FirstStop
         emitted == [k \in 1..m |-> Join(WindowAt(k - 1))]
     IN  /\ (pc = "after" \/ m > 0) => chunks = emitted
         /\ (pc = "after" \/ m > 0) =>
               \A k \in 1..Len(chunks) : WordCount(chunks[k]) >= LeastLen
         /\ (pc = "done" /\ m = 0) => chunks \in {<< >>, <<Join(words)>>}

\* C6 witness: several windows were emitted and the loop stopped on a
\* short window that still held words.
Wit_C6 ==
  /\ pc = "done"
  /\ stride_words >= 1
  /\ Len(chunks) >= 3
  /\ i < Len(words)
  /\ Len(WindowAt(Len(chunks))) > 0

\* C7 as stated: whenever stride_words <= chunk_words, every returned chunk
\* has at most chunk_words words.
Orig_C7 ==
  (pc = "done" /\ stride_words <= chunk_words) =>
     \A k \in 1..Len(chunks) : WordCount(chunks[k]) <= chunk_words

\* C7 amended: whenever chunk_words >= 10 and stride_words <= chunk_words,
\* every returned chunk has at most chunk_words words.
Thm_C7 ==
  (pc = "done" /\ chunk_words >= 10 /\ stride_words <= chunk_words) =>
     \A k \in 1..Len(chunks) : WordCount(chunks[k]) <= chunk_words

\* C7 witness: a returned list with a full window of chunk_words words
\* followed by a shorter tail window.
Wit_C7 ==
  /\ pc = "done"
  /\ chunk_words >= 10
  /\ stride_words <= chunk_words
  /\ Len(chunks) >= 2
  /\ WordCount(chunks[1]) = chunk_words
  /\ WordCount(chunks[Len(chunks)]) < chunk_words

\* C8: when the sliding window has emitted nothing, the result is the one
\* chunk holding the whole word sequence if the document has at least
\* 10 words; a document of fewer than 10 words gives the empty list.
Thm_C8 ==
  /\ [][(pc = "after" /\ pc' = "done" /\ chunks = << >> /\ Len(words) >= 10)
          => chunks' = <<Join(words)>>]_vars
  /\ [](pc = "done" /\ Len(words) < 10 => chunks = << >>)

\* C8 witness: the fallback chunk returned for a document shorter than the
\* window.
Wit_C8 ==
  /\ pc = "done"
  /\ Len(words) = 10
  /\ chunk_words > 30
  /\ chunks = <<Join(words)>>

\* ------------------------------------------------------------------------
\* Claims about compute_matches (checked under Spec)
\* ------------------------------------------------------------------------
\* A call that went through vectorizing, scoring and selection.
Finished(call) == call.called /\ call.res.fitted /\ ~call.res.raised

Rows(call) == 1..Len(call.res.q_chunks)
Cols(call) == 1..Len(call.res.doc_chunk_map)

\* The similarity of query chunk r and corpus chunk c.
Score(call, r, c) == sim[<<call.res.q_chunks[r], call.res.doc_chunk_map[c][2]>>]

\* The (source_doc, source_chunk) pair of corpus chunk c.
KeyOf(call, c) == call.res.doc_chunk_map[c]

\* Corpus chunk c is among the top_k_per_chunk best of row r.
Selected(call, r, c) ==
  LET asc == order[call.res.q_chunks[r]]
  IN  \E p \in 1..Len(asc) : asc[p] = c /\ p > Len(asc) - call.top_k_per_chunk

\* The candidate matches: selected by top-k and at or above the threshold.
Candidates(call) ==
  {rc \in Rows(call) \X Cols(call) :
     Selected(call, rc[1], rc[2]) /\ Score(call, rc[1], rc[2]) >= call.threshold}

\* C1: no two returned matches share a (source_doc, source_chunk) pair, and
\* the match kept for a pair is a candidate of that pair whose score is
\* maximal among the candidates of the pair.
Thm_C1 ==
  Finished(last) =>
    LET ms == last.res.matches
    IN  /\ \A a, b \in 1..Len(ms) :
             a # b => <<ms[a].source_doc, ms[a].source_chunk>>
                        # <<ms[b].source_doc, ms[b].source_chunk>>
        /\ \A a \in 1..Len(ms) :
             /\ \A rc \in Candidates(last) :
                  KeyOf(last, rc[2]) = <<ms[a].source_doc, ms[a].source_chunk>>
                    => Score(last, rc[1], rc[2]) <= ms[a].score
             /\ \E rc \in Candidates(last) :
                  /\ KeyOf(last, rc[2]) = <<ms[a].source_doc, ms[a].source_chunk>>
                  /\ Score(last, rc[1], rc[2]) = ms[a].score
                  /\ last.res.q_chunks[rc[1]] = ms[a].query_chunk

\* C1 witness: two candidates of one pair, the earlier with the lower score,
\* and the pair returned once.
Wit_C1 ==
  /\ Finished(last)
  /\ \E rc1, rc2 \in Candidates(last) :
       /\ rc1[1] < rc2[1]
       /\ KeyOf(last, rc1[2]) = KeyOf(last, rc2[2])
       /\ Score(last, rc1[1], rc1[2]) < Score(last, rc2[1], rc2[2])
  /\ Len(last.res.matches) = 1

\* C2: two calls on the same query, corpus, chunk_words and stride_words
\* return the same global similarity whatever their threshold and
\* top_k_per_chunk.
Thm_C2 ==
  (prev.called /\ last.called) =>
     prev.res.global_sim.num * last.res.global_sim.den
       = last.res.global_sim.num * prev.res.global_sim.den

\* C2 witness: two calls that differ in both parameters and in the matches
\* they return, with a positive global similarity.
Wit_C2 ==
  /\ Finished(prev)
  /\ Finished(last)
  /\ prev.threshold # last.threshold
  /\ prev.top_k_per_chunk # last.top_k_per_chunk
  /\ prev.res.matches # last.res.matches
  /\ last.res.matches # << >>
  /\ last.res.global_sim.num > 0

\* C3: of two calls that differ only in the threshold, the one with the
\* higher threshold returns only matches that the other returns too.
Thm_C3 ==
  (prev.called /\ last.called /\ prev.top_k_per_chunk = last.top_k_per_chunk) =>
     /\ prev.threshold <= last.threshold =>
          SeqToSet(last.res.matches) \subseteq SeqToSet(prev.res.matches)
     /\ last.threshold <= prev.threshold =>
          SeqToSet(prev.res.matches) \subseteq SeqToSet(last.res.matches)

\* C3 witness: the higher threshold removed a match and kept one, in a call
\* where a pair had two candidates under the lower threshold.
Wit_C3 ==
  /\ Finished(prev)
  /\ Finished(last)
  /\ prev.top_k_per_chunk = last.top_k_per_chunk
  /\ prev.threshold < last.threshold
  /\ last.res.matches # << >>
  /\ Cardinality(Candidates(last)) < Cardinality(Candidates(prev))
  /\ Cardinality(Candidates(prev)) > Len(prev.res.matches)

\* The query or the corpus gives no chunk.
NoChunks ==
  \/ corpus_docs = << >>
  \/ \A d \in 1..Len(corpus_docs) :
       word_chunks(normalize_text(corpus_docs[d].doctext), chunk_words, stride_words) = << >>
  \/ query_text = << >>
  \/ WordCount(normalize_text(query_text)) < 10
  \/ word_chunks(normalize_text(query_text), chunk_words, stride_words) = << >>

\* C4: when the corpus is empty or gives no chunk, or the query gives no
\* chunk, the call returns (0.0, []) without raising and without fitting
\* the vectorizer.
Thm_C4 ==
  (last.called /\ NoChunks) =>
     /\ ~last.res.raised
     /\ ~last.res.fitted
     /\ last.res.global_sim.num = 0
     /\ last.res.matches = << >>

\* C4 witness: a call whose query has chunks and whose corpus holds
\* documents that give none.
Wit_C4 ==
  /\ last.called
  /\ corpus_docs # << >>
  /\ WordCount(normalize_text(query_text)) >= 10
  /\ \A d \in 1..Len(corpus_docs) :
       word_chunks(normalize_text(corpus_docs[d].doctext), chunk_words, stride_words) = << >>
  /\ last.res.matches = << >>

\* The greatest score of row r.
RowBest(call, r) ==
  CHOOSE b \in 0..ScoreMax :
    /\ \A c \in Cols(call) : Score(call, r, c) <= b
    /\ \E c \in Cols(call) : Score(call, r, c) = b

RowBestSum(call) ==
  LET acc[r \in 0..Len(call.res.q_chunks)] ==
        IF r = 0 THEN 0 ELSE acc[r - 1] + RowBest(call, r)
  IN  acc[Len(call.res.q_chunks)]

\* C5: when query and corpus both have chunks, the global similarity is the
\* mean over the query chunks of the greatest score of their row, whatever
\* the returned matches.
Thm_C5 ==
  Finished(last) =>
     last.res.global_sim.num * Len(last.res.q_chunks)
       = last.res.global_sim.den * RowBestSum(last)

\* C5 witness: a call on several query chunks with a positive global
\* similarity that returns no match.
Wit_C5 ==
  /\ Finished(last)
  /\ last.top_k_per_chunk >= 1
  /\ Len(last.res.q_chunks) >= 2
  /\ last.res.matches = << >>
  /\ last.res.global_sim.num > 0

\* C9: every returned match has a score at or above the threshold of the
\* call.
Thm_C9 ==
  last.called =>
     \A a \in 1..Len(last.res.matches) : last.res.matches[a].score >= last.threshold

\* C9 witness: a call that returns a match and has left out a selected
\* corpus chunk below the threshold.
Wit_C9 ==
  /\ Finished(last)
  /\ last.res.matches # << >>
  /\ \E r \in Rows(last), c \in Cols(last) :
       Selected(last, r, c) /\ Score(last, r, c) < last.threshold

\* C10: the returned matches are in order of non-increasing score.
Thm_C10 ==
  last.called =>
     \A a, b \in 1..Len(last.res.matches) :
        a < b => last.res.matches[a].score >= last.res.matches[b].score

\* C10 witness: a match of a later query chunk returned before a match of
\* an earlier query chunk with a lower score.
Wit_C10 ==
  /\ Finished(last)
  /\ \E a, b \in 1..Len(last.res.matches) :
       /\ a < b
       /\ last.res.matches[a].score > last.res.matches[b].score
       /\ \E ra, rb \in Rows(last) :
            /\ rb < ra
            /\ last.res.q_chunks[ra] = last.res.matches[a].query_chunk
            /\ last.res.q_chunks[rb] = last.res.matches[b].query_chunk
            /\ last.res.q_chunks[ra] # last.res.q_chunks[rb]


\* The call lo returns only pairs that the call hi returns too, with a
\* score at least as high.
PairsKept(lo, hi) ==
  \A a \in 1..Len(lo.res.matches) :
    \E b \in 1..Len(hi.res.matches) :
      /\ hi.res.matches[b].source_doc = lo.res.matches[a].source_doc
      /\ hi.res.matches[b].source_chunk = lo.res.matches[a].source_chunk
      /\ hi.res.matches[b].score >= lo.res.matches[a].score

\* C11: of two calls that differ only in top_k_per_chunk, the one with the
\* higher top_k_per_chunk returns every (source_doc, source_chunk) pair of
\* the other, with a score at least as high.
Thm_C11 ==
  (prev.called /\ last.called /\ prev.threshold = last.threshold) =>
     /\ prev.top_k_per_chunk <= last.top_k_per_chunk => PairsKept(prev, last)
     /\ last.top_k_per_chunk <= prev.top_k_per_chunk => PairsKept(last, prev)

\* C11 witness: the higher top_k_per_chunk brought a further pair, and a
\* pair of the lower one was selected again by a row that scores it lower.
Wit_C11 ==
  /\ Finished(prev)
  /\ Finished(last)
  /\ prev.threshold = last.threshold
  /\ prev.top_k_per_chunk >= 1
  /\ prev.top_k_per_chunk < last.top_k_per_chunk
  /\ Len(prev.res.matches) >= 1
  /\ Len(last.res.matches) > Len(prev.res.matches)
  /\ \E rc1, rc2 \in Candidates(last) :
       /\ rc1[1] < rc2[1]
       /\ KeyOf(last, rc1[2]) = KeyOf(last, rc2[2])
       /\ Score(last, rc1[1], rc1[2]) > Score(last, rc2[1], rc2[2])


\* No chunk of the call holds a word of two or more characters.
NoTokenAnywhere(call) ==
  /\ \A r \in Rows(call) :
       \A w \in SeqToSet(Split(call.res.q_chunks[r])) : Len(w) < 2
  /\ \A c \in Cols(call) :
       \A w \in SeqToSet(Split(call.res.doc_chunk_map[c][2])) : Len(w) < 2

\* C12 as stated: a call whose query and corpus both have chunks, none of
\* them with a token for the vectorizer, returns (0.0, []) and does not
\* raise.
Orig_C12 ==
  (last.called /\ Rows(last) # {} /\ Cols(last) # {} /\ NoTokenAnywhere(last)) =>
     /\ ~last.res.raised
     /\ last.res.global_sim.num = 0
     /\ last.res.matches = << >>


\* ------------------------------------------------------------------------
\* Claims about normalize_text (checked under SpecNormalize)
\* ------------------------------------------------------------------------
\* C13 as stated: called with the empty string or with None, normalize_text
\* returns the empty string and does not raise.
Orig_C13 ==
  (nt_ret.status \in {"returned", "raised"} /\ nt_arg \in {<< >>, NoneValue}) =>
     (nt_ret.status = "returned" /\ nt_ret.value = << >>)


\* C14 as stated: when two corpus chunks score the same against a query
\* chunk and only one of them is among the top_k_per_chunk selected, the
\* selected one is the one that comes first in the corpus.
Orig_C14 ==
  Finished(last) =>
    \A r \in Rows(last) : \A c1, c2 \in Cols(last) :
      (/\ c1 < c2
       /\ Score(last, r, c1) = Score(last, r, c2)
       /\ Selected(last, r, c1) # Selected(last, r, c2))
        => Selected(last, r, c1)


\* ------------------------------------------------------------------------
\* Termination of word_chunks (checked under SpecChunks)
\* ------------------------------------------------------------------------
\* C15 as stated: whenever stride_words <= chunk_words, the while loop of
\* word_chunks ends after a number of window steps bounded by the number N
\* of words: every step but the last appends one chunk, so at no time are
\* there more than N + 1 chunks.
Orig_C15 ==
  (stride_words <= chunk_words) => Len(chunks) <= Len(words) + 1


\* ------------------------------------------------------------------------
\* Claims about highlight_text (checked under SpecHighlight)
\* ------------------------------------------------------------------------
\* The matches the loop takes, and the snippet of the k-th of them.
Taken == 1..Min2(MaxMatches, Len(matches))
SnippetOf(k) == Snippet(matches[k].query_chunk)

\* s stands in t, character for character.
OccursIn(s, t) ==
  \E q \in 1..(Len(t) - Len(s) + 1) : SubSeq(t, q, q + Len(s) - 1) = s

\* s stands in t between an opening and a closing marker.
WrappedIn(s, t) ==
  \E q \in 1..(Len(t) - Len(s) - 1) :
     /\ t[q] = MarkOpen
     /\ SubSeq(t, q + 1, q + Len(s)) = s
     /\ t[q + Len(s) + 1] = MarkClose

\* The pattern of snippet s matches somewhere in t.
FoundIn(s, t) == \E q \in 1..Len(t) : MatchEnd(Pattern(s), 1, t, q) # 0

\* C16 as stated: when highlight_text returns, every snippet of at least 20
\* characters among the first 20 matches that occurs in the original text
\* is wrapped in markers in the output, whatever was processed before it.
Orig_C16 ==
  hl_pc = "done" =>
    \A k \in Taken :
      (Len(SnippetOf(k)) >= MinSnippetLen /\ OccursIn(SnippetOf(k), hl_text))
        => WrappedIn(SnippetOf(k), out)

\* C17: every evaluation of the loop body goes on to the next match, none
\* ends the call, and a match whose snippet is too short or is not found in
\* out leaves out as it was; the call returns only when all of the first 20
\* matches have been taken.
Thm_C17 ==
  [][ /\ (hl_pc = "loop" /\ hl_k < Len(PySlice(matches, 0, MaxMatches))) =>
           /\ hl_pc' = "loop"
           /\ hl_k' = hl_k + 1
           /\ (Len(SnippetOf(hl_k + 1)) < MinSnippetLen \/ ~FoundIn(SnippetOf(hl_k + 1), out))
                => out' = out
      /\ hl_pc' = "done" => hl_k' = Len(PySlice(matches, 0, MaxMatches)) ]_vars

\* C17 witness: the call has returned, a match without effect (a snippet
\* that is too short or stands nowhere) came before a match whose snippet
\* is wrapped in the output.
Wit_C17 ==
  /\ hl_pc = "done"
  /\ \E a, b \in Taken :
       /\ a < b
       /\ Len(SnippetOf(a)) < MinSnippetLen \/ ~FoundIn(SnippetOf(a), hl_text)
       /\ Len(SnippetOf(b)) >= MinSnippetLen
       /\ WrappedIn(SnippetOf(b), out)

\* The first 20 matches, each cut to its leading 12 words, without those
\* whose snippet has fewer than 20 characters.
LeadingWords(qc) ==
  LET ws == Split(qc) IN Join(SubSeq(ws, 1, Min2(SnippetWords, Len(ws))))
Trimmed(ms) ==
  LET first == SubSeq(ms, 1, Min2(MaxMatches, Len(ms)))
      cut == [k \in 1..Len(first) |-> MatchOf(LeadingWords(first[k].query_chunk))]
  IN  SelectSeq(cut, LAMBDA m : Len(m.query_chunk) >= MinSnippetLen)

\* C18: the output is that of highlight_text on the first 20 matches, and
\* that of highlight_text on the first 20 matches cut to their leading 12
\* words with the snippets under 20 characters removed.
Thm_C18 ==
  hl_pc = "done" =>
    /\ out = highlight_text(hl_text, SubSeq(matches, 1, Min2(MaxMatches, Len(matches))))
    /\ out = highlight_text(hl_text, Trimmed(matches))

\* C18 witness: a call with more than 20 matches has returned; the snippet
\* of the 21st occurs in the text and is not wrapped, and among the first 20
\* there is a snippet that is too short.
Wit_C18 ==
  /\ hl_pc = "done"
  /\ Len(matches) > MaxMatches
  /\ Len(SnippetOf(MaxMatches + 1)) >= MinSnippetLen
  /\ FoundIn(SnippetOf(MaxMatches + 1), hl_text)
  /\ ~WrappedIn(SnippetOf(MaxMatches + 1), out)
  /\ \E k \in Taken : Len(SnippetOf(k)) < MinSnippetLen

\* C19: with an empty list of matches the text is returned unchanged.
Thm_C19 ==
  (hl_pc = "done" /\ matches = << >>) => out = hl_text

\* C19 witness: a call with no matches has returned a text that has
\* capitals and punctuation in it.
Wit_C19 ==
  /\ hl_pc = "done"
  /\ matches = << >>
  /\ hl_text # << >>
  /\ normalize_text(hl_text) # hl_text


\* ------------------------------------------------------------------------
\* Claims about web_similarity_scan (checked under SpecWeb)
\* ------------------------------------------------------------------------
\* The words of a query, its quotes left out.
QueryWords(q) == _split_words(q)

\* ws is a run of consecutive words of the text.
ConsecutiveIn(ws, all) ==
  \E a \in 1..(Len(all) - Len(ws) + 1) : SubSeq(all, a, a + Len(ws) - 1) = ws

\* C20 as stated: a scan sends at most num_chunks queries, every query is
\* a run of at most chunk_words consecutive words of the text, and no query
\* holds all the words of the text.
Orig_C20 ==
  LET all == _split_words(web_text)
  IN  /\ Len(queries) <= num_chunks
      /\ \A k \in 1..Len(queries) :
           /\ Len(QueryWords(queries[k].q)) <= chunk_words
           /\ ConsecutiveIn(QueryWords(queries[k].q), all)
           /\ QueryWords(queries[k].q) # all


\* ------------------------------------------------------------------------
\* Coverage of the document by word_chunks (checked under SpecChunks)
\* ------------------------------------------------------------------------
\* The word at position w stands in one of the returned chunks (the words
\* of a document of ChunkTexts are all different).
Covered(w) == \E k \in 1..Len(chunks) : words[w] \in SeqToSet(Split(chunks[k]))
Uncovered == {w \in 1..Len(words) : ~Covered(w)}

\* C22 as stated: for a document of at least 10 words and stride_words <=
\* chunk_words, every word belongs to at least one returned chunk.
Orig_C22 ==
  (pc = "done" /\ Len(words) >= 10 /\ stride_words <= chunk_words) =>
     Uncovered = {}

\* C22 amended: for a document of at least 10 words and 1 <= stride_words
\* <= chunk_words, the words that belong to no returned chunk are a run at
\* the end of the document of fewer than max(10, chunk_words // 3) words.
Thm_C22 ==
  (pc = "done" /\ Len(words) >= 10 /\ stride_words >= 1 /\ stride_words <= chunk_words) =>
     /\ Cardinality(Uncovered) < LeastLen
     /\ \A w \in Uncovered : \A v \in 1..Len(words) : v > w => v \in Uncovered

\* C22 witness: a returned list of two or more chunks that leaves words at
\* the end of the document out.
Wit_C22 ==
  /\ pc = "done"
  /\ Len(words) >= 10
  /\ stride_words >= 1
  /\ stride_words <= chunk_words
  /\ Len(chunks) >= 2
  /\ Uncovered # {}


\* ------------------------------------------------------------------------
\* Flagged query chunks and deduplication (checked under Spec)
\* ------------------------------------------------------------------------
\* Query chunk r is flagged: its best score reaches the threshold.
Flagged(call, r) == RowBest(call, r) >= call.threshold

\* Query chunk r is the query_chunk of a returned match.
Listed(call, r) ==
  \E a \in 1..Len(call.res.matches) :
     call.res.matches[a].query_chunk = call.res.q_chunks[r]

\* C23 as stated: with top_k_per_chunk >= 1, every query chunk whose best
\* similarity reaches the threshold is the query_chunk of a returned match.
Orig_C23 ==
  (Finished(last) /\ last.top_k_per_chunk >= 1) =>
     \A r \in Rows(last) : Flagged(last, r) => Listed(last, r)

\* C23 amended: with top_k_per_chunk >= 1, for every query chunk whose best
\* similarity reaches the threshold a match is returned for the source span
\* of one of its best corpus chunks, with a score at least as high; the
\* query chunk of that match may be another one.
Thm_C23 ==
  (Finished(last) /\ last.top_k_per_chunk >= 1) =>
     \A r \in Rows(last) :
        Flagged(last, r) =>
          \E c \in Cols(last) :
             /\ Selected(last, r, c)
             /\ Score(last, r, c) = RowBest(last, r)
             /\ \E a \in 1..Len(last.res.matches) :
                   /\ <<last.res.matches[a].source_doc,
                        last.res.matches[a].source_chunk>> = KeyOf(last, c)
                   /\ last.res.matches[a].score >= RowBest(last, r)

\* C23 witness: a call that returns matches, with a flagged query chunk
\* that is the query_chunk of none of them.
Wit_C23 ==
  /\ Finished(last)
  /\ last.top_k_per_chunk >= 1
  /\ last.res.matches # << >>
  /\ \E r \in Rows(last) : Flagged(last, r) /\ ~Listed(last, r)


\* ------------------------------------------------------------------------
\* highlight_text only inserts markers (checked under SpecHighlight)
\* ------------------------------------------------------------------------
\* s without the two markers.
RemoveMarkers(s) == SelectSeq(s, LAMBDA c : c \notin {MarkOpen, MarkClose})

\* The text has neither marker in it.
MarkerFree(s) == \A p \in 1..Len(s) : s[p] \notin {MarkOpen, MarkClose}

\* C24: for a text without markers, out with all markers deleted is the
\* original text, after every evaluation of the loop and at the return.
Thm_C24 ==
  (hl_pc \in {"loop", "done"} /\ MarkerFree(hl_text)) =>
     RemoveMarkers(out) = hl_text

\* C24 witness: a call has returned an output with nested markers (a
\* snippet processed twice) around text that has a capital in it.
Wit_C24 ==
  /\ hl_pc = "done"
  /\ MarkerFree(hl_text)
  /\ \E p \in 1..(Len(out) - 2) :
        /\ out[p] = MarkOpen
        /\ out[p + 1] = MarkOpen
        /\ out[p + 2] \in UpperChars


\* ------------------------------------------------------------------------
\* Claims about the Streamlit script (checked under SpecApp)
\* ------------------------------------------------------------------------
\* C21 as stated: a call of web_similarity_scan that sends requests (its
\* text has words) is made only in a script run in which a key is
\* configured and the consent checkbox is ticked.
Orig_C21 ==
  (last_scan.called /\ last_scan.text # "") => (serp_key /\ last_scan.consent)

\* The names whose metadata exclude flag is set.
Excluded == {n \in DocNames : library_meta[n] = "exclude"}

\* The step is a script run that serves a click on the analysis button.
AnalysisRun == clicked.btn = "btn_analisar_bib" /\ clicked' = NoClick

\* C25: in a script run that serves a click on the analysis button, the
\* corpus passed to compute_matches holds documents of the library only and
\* none whose exclude flag is set in library_meta; when the library is empty
\* or every document is excluded, compute_matches is not called and
\* last_result keeps its value; no other step changes last_result.
Thm_C25 ==
  [][ /\ AnalysisRun =>
           /\ cm_called' =>
                /\ last_result'.corpus # {}
                /\ last_result'.corpus \subseteq SeqToSet(library)
                /\ last_result'.corpus \cap Excluded = {}
           /\ (library = << >> \/ SeqToSet(library) \subseteq Excluded) =>
                (~cm_called' /\ last_result' = last_result)
      /\ ~AnalysisRun => last_result' = last_result ]_vars

\* C25 witness: compute_matches has been called on a library of two
\* documents, one of them excluded and not in the corpus.
Wit_C25 ==
  /\ cm_called
  /\ Len(library) = 2
  /\ Cardinality(last_result.corpus) = 1
  /\ \E n \in SeqToSet(library) : n \in Excluded /\ n \notin last_result.corpus

\* C26 as stated: a name removed with Remover and not uploaded since is in
\* neither library nor library_meta.
Orig_C26 ==
  \A n \in removed : n \notin SeqToSet(library) /\ library_meta[n] = "absent"

====
